---- MODULE Spec2Model ----
(***************************************************************************)
(* A model of efibootdude (src/efibootdude/main.py): the parse of the      *)
(* efibootmgr table (digest_boots), the session state (boot_entries,       *)
(* original_entries, mods, the cursor), the key handlers of do_key and     *)
(* do_actions, the dirty reconciliation (update_dirty_state) and the       *)
(* command synthesis (write).                                              *)
(*                                                                         *)
(* Conventions.  Strings of the program are TLA+ strings.  A raw line is   *)
(* given by what line.split(maxsplit=1), the comparison of the key with    *)
(* 'BootOrder:' and the boot-option regular expression make of it (its     *)
(* token count, its key, whether the expression matches and the groups it  *)
(* captures).  Indices (boot_idx, pick_pos) keep their Python values, so   *)
(* the Python element s[i] is the TLA+ element s[i + 1].  None is the      *)
(* value None below.  The display-only state (info1, info2, width1,        *)
(* label_wid, the options of the spinner) is left out.                     *)
(***************************************************************************)
EXTENDS Integers, Sequences, FiniteSets, TLC

VARIABLES
    raw,              \* the text the next load reads (efibootmgr output or the test file)
    testfile,         \* self.testfile is set: the text is read with readlines()
    status,           \* "new" before __init__, "ui" in main_loop, "crashed", "exited",
                      \* "rebooted"
    curses,           \* the terminal is in curses mode (at a crash: when the load failed)
    boot_entries,     \* self.boot_entries
    original_entries, \* self.original_entries
    boot_idx,         \* self.boot_idx
    pick_pos,         \* self.win.pick_pos
    mods,             \* self.mods (BootModifications)
    shown,            \* the command list the last write() printed
    ran,              \* the commands the last write() executed, in order, with their exit status
    nops              \* number of edits since the last load (bounds the exploration)

vars == <<raw, testfile, status, curses, boot_entries, original_entries, boot_idx,
          pick_pos, mods, shown, ran, nops>>

(***************************************************************************)
(* Bounds of the exploration.                                              *)
(***************************************************************************)
NumIdents == 2    \* distinct boot-option identifiers in an input
MaxLen == 3       \* longest list of Boot lines / of BootOrder tokens in a parsed input
MaxOps == 4       \* edits explored after a load

None == "<None>"

AllIdents == <<"0001", "0002", "0003", "0004", "0005">>
Idents == {AllIdents[i] : i \in 1..NumIdents}
AbsentIdent == "00FF"     \* an identifier no Boot line carries

Range(s) == {s[i] : i \in DOMAIN s}
SeqsUpTo(S, n) == UNION {[1..k -> S] : k \in 0..n}
Last(s) == s[Len(s)]
Front(s) == SubSeq(s, 1, Len(s) - 1)

(***************************************************************************)
(* BootEntry and BootModifications.                                        *)
(***************************************************************************)
BootEntry(ident, is_boot, active, label) ==
    [ident |-> ident, is_boot |-> is_boot, active |-> active, label |-> label,
     removed |-> FALSE]

BootModifications ==
    [dirty |-> FALSE, order |-> FALSE, timeout |-> None, removes |-> {},
     tags |-> <<>>, next |-> None, actives |-> {}, inactives |-> {}]

(***************************************************************************)
(* Raw lines, as the parser sees them.                                     *)
(***************************************************************************)
RawLine(ntok, key, info, mat, ident, active, label) ==
    [ntok |-> ntok, key |-> key, info |-> info, mat |-> mat, ident |-> ident,
     active |-> active, label |-> label]

\* a line of fewer than two tokens (a blank line, or a key without a value)
ShortLine(key) == RawLine(1, key, <<>>, FALSE, "", "", "")
\* 'BootOrder: a,b,c': info is the comma-separated value, token by token
OrderLine(order) == RawLine(2, "BootOrder:", order, FALSE, "", "", "")
\* a line the boot-option expression does not match: 'key value'
SysLine(key, value) == RawLine(2, key, <<value>>, FALSE, "", "", "")
\* 'Boot0001* label<TAB>path': groups 1 to 3 of the expression
BootLine(ident, active, label) ==
    RawLine(2, "Boot" \o ident \o active, <<label>>, TRUE, ident, active, label)

\* fh.readlines() keeps each line's newline, stdout.splitlines() drops it;
\* split(maxsplit=1) leaves it at the end of the second part
ReadLine(line, tf) ==
    IF tf /\ line.ntok >= 2
    THEN [line EXCEPT !.info = Append(Front(@), Last(@) \o "\n")]
    ELSE line

ReadLines(text, tf) == [i \in DOMAIN text |-> ReadLine(text[i], tf)]

(***************************************************************************)
(* digest_boots                                                            *)
(***************************************************************************)
\* boots[ns.ident] = ns on a dict kept as the sequence of its values in
\* insertion order: a key already present keeps its place
DictPut(boots, ns) ==
    IF \E i \in DOMAIN boots : boots[i].ident = ns.ident
    THEN [i \in DOMAIN boots |-> IF boots[i].ident = ns.ident THEN ns ELSE boots[i]]
    ELSE Append(boots, ns)

DictHas(boots, ident) == \E i \in DOMAIN boots : boots[i].ident = ident
DictGet(boots, ident) == boots[CHOOSE i \in DOMAIN boots : boots[i].ident = ident]
DictPop(boots, ident) == SelectSeq(boots, LAMBDA ns : ns.ident # ident)

\* the iteration of lines 216-271 without the replacement of lines 235-236
DigestLine_appending_next(acc, line) ==
    IF line.ntok < 2 THEN acc
    ELSE IF line.key = "BootOrder:" THEN
        [acc EXCEPT !.bound = TRUE, !.boot_order = line.info]
    ELSE IF ~line.mat THEN
        [acc EXCEPT !.rv = Append(@, BootEntry(line.key, FALSE, "", line.info[1]))]
    ELSE
        LET ns == BootEntry(line.ident, TRUE, line.active, line.label)
        IN [acc EXCEPT !.boots = DictPut(@, ns)]

\* one iteration of the loop over the lines (lines 216-271)
DigestLine(acc, line) ==
    IF line.ntok < 2 THEN acc
    ELSE IF line.key = "BootOrder:" THEN
        [acc EXCEPT !.bound = TRUE, !.boot_order = line.info]
    ELSE IF ~line.mat THEN
        LET ns == BootEntry(line.key, FALSE, "", line.info[1]) IN
        IF line.key = "BootNext:" /\ Len(acc.rv) > 0
        THEN [acc EXCEPT !.rv[1] = ns]
        ELSE [acc EXCEPT !.rv = Append(@, ns)]
    ELSE
        LET ns == BootEntry(line.ident, TRUE, line.active, line.label)
        IN [acc EXCEPT !.boots = DictPut(@, ns)]

RECURSIVE DigestLines(_, _)
DigestLines(acc, lines) ==
    IF lines = <<>> THEN acc
    ELSE DigestLines(DigestLine(acc, Head(lines)), Tail(lines))

\* lines 277-279: for ident in boot_order.split(','): move it out of boots
RECURSIVE ApplyOrder(_, _, _)
ApplyOrder(rv, boots, order) ==
    IF order = <<>> THEN <<rv, boots>>
    ELSE IF DictHas(boots, Head(order))
    THEN ApplyOrder(Append(rv, DictGet(boots, Head(order))),
                    DictPop(boots, Head(order)), Tail(order))
    ELSE ApplyOrder(rv, boots, Tail(order))

\* the loop of lines 216-271 over ['BootNext: ---'] + lines
ParseLines(text, tf) ==
    DigestLines([rv |-> <<>>, boots |-> <<>>, bound |-> FALSE, boot_order |-> <<>>],
                <<SysLine("BootNext:", "---")>> \o ReadLines(text, tf))

\* digest_boots: ok is FALSE when line 277 reads boot_order unassigned
\* (UnboundLocalError); otherwise rv is the table and boot_idx the boundary
digest_boots(text, tf) ==
    LET acc == ParseLines(text, tf)
        placed == ApplyOrder(acc.rv, acc.boots, acc.boot_order)
    IN IF ~acc.bound
       THEN [ok |-> FALSE, rv |-> <<>>, boot_idx |-> Len(acc.rv)]
       ELSE [ok |-> TRUE, rv |-> placed[1] \o placed[2], boot_idx |-> Len(acc.rv)]

(***************************************************************************)
(* Answers typed at the prompts.                                           *)
(***************************************************************************)
\* digit strings, accepted by re.match(r'\d+$', answer)
TimeoutAnswers == {"5", "05", "10"}
\* int(answer) of the digit strings above
IntOf(s) == CASE s = "5" -> 5 [] s = "05" -> 5 [] s = "10" -> 10
\* labels accepted by re.match(r'([\w\s])+$', answer)
TagAnswers == {"Linux", "Foo"}

\* What is typed at a prompt is a sequence of characters; these are the
\* classes the two patterns tell apart ('-' is in none of them).
Digits == {"0", "1", "5"}
WordChars == Digits \cup {"F", "L", "i", "n", "o", "s", "u", "x", "_"}
Spaces == {" "}

\* the str of the characters
RECURSIVE Str(_)
Str(chars) == IF chars = <<>> THEN "" ELSE Head(chars) \o Str(Tail(chars))

\* answer.strip()
RECURSIVE lstrip(_)
lstrip(chars) ==
    IF chars # <<>> /\ Head(chars) \in Spaces THEN lstrip(Tail(chars)) ELSE chars

RECURSIVE rstrip(_)
rstrip(chars) ==
    IF chars # <<>> /\ chars[Len(chars)] \in Spaces
    THEN rstrip(SubSeq(chars, 1, Len(chars) - 1))
    ELSE chars

strip(chars) == rstrip(lstrip(chars))

\* a pattern that takes whatever is typed
timeout_accepted_whatever(chars) == chars # <<>>

\* re.match(r'\d+$', answer)
timeout_accepted(chars) ==
    chars # <<>> /\ \A i \in DOMAIN chars : chars[i] \in Digits

\* re.match(r'([\w\s])+$', answer)
label_accepted(chars) ==
    chars # <<>> /\ \A i \in DOMAIN chars : chars[i] \in WordChars \cup Spaces

\* the loop of lines 579-591 on the inputs typed one after the other: the
\* answer that ends it, '' on an abort
RECURSIVE timeout_answer(_)
timeout_answer(typed) ==
    IF typed = <<>> THEN ""
    ELSE LET answer == strip(Head(typed)) IN
         IF answer = <<>> THEN ""
         ELSE IF timeout_accepted(answer) THEN Str(answer)
         ELSE timeout_answer(Tail(typed))

\* the loop of lines 747-756
RECURSIVE tag_answer(_)
tag_answer(typed) ==
    IF typed = <<>> THEN ""
    ELSE LET answer == strip(Head(typed)) IN
         IF answer = <<>> THEN ""
         ELSE IF label_accepted(answer) THEN Str(answer)
         ELSE tag_answer(Tail(typed))

\* inputs that end the timeout loop, and inputs that make it ask again
TimeoutEnding ==
    {<<"5">>, <<"0", "5">>, <<"1", "0">>, <<" ", "5", " ">>, <<>>, <<" ">>}
TimeoutRefused == {<<"5", "s">>, <<"-", "5">>}
\* the same for the label loop
TagEnding ==
    {<<"L", "i", "n", "u", "x">>, <<"F", "o", "o">>, <<" ", "F", "o", "o">>, <<>>, <<" ">>}
TagRefused == {<<"F", "-", "o">>}

\* what the user types until the loop ends: at most one refused input,
\* then one that ends the loop
Typed(refused, ending) ==
    {<<e>> : e \in ending} \cup {<<r, e>> : r \in refused, e \in ending}

\* what is typed in the sessions explored: an accepted answer or blanks at
\* once, or after a refused input
TimeoutTyped ==
    {<<<<"5">>>>, <<<<"0", "5">>>>, <<<<"1", "0">>>>, <<<<" ">>>>,
     <<<<"5", "s">>, <<" ", "5", " ">>>>, <<<<"-", "5">>, <<>>>>}
TagTyped ==
    {<<<<"L", "i", "n", "u", "x">>>>, <<<<"F", "o", "o">>>>, <<<<" ">>>>,
     <<<<"F", "-", "o">>, <<" ", "F", "o", "o">>>>, <<<<"F", "-", "o">>, <<>>>>}

\* label.split()[0] of a label '<digits> seconds', with or without newline
Word0(label) ==
    IF \E w \in TimeoutAnswers :
          \E r \in {"", "\n", " seconds", " seconds\n"} : label = w \o r
    THEN CHOOSE w \in TimeoutAnswers :
          \E r \in {"", "\n", " seconds", " seconds\n"} : label = w \o r
    ELSE label

\* Python truth value of an Optional[str]
Truthy(x) == x # None /\ x # ""

(***************************************************************************)
(* update_dirty_state                                                      *)
(***************************************************************************)
IdentsOf(entries) == [i \in DOMAIN entries |-> entries[i].ident]

\* next((ns.label for ns in entries if ns.ident == ident), None)
FirstLabel(entries, ident) ==
    IF \E i \in DOMAIN entries : entries[i].ident = ident
    THEN entries[CHOOSE i \in DOMAIN entries :
                    /\ entries[i].ident = ident
                    /\ \A j \in 1..(i - 1) : entries[j].ident # ident].label
    ELSE None

original_order(orig) == IdentsOf(SelectSeq(orig, LAMBDA ns : ns.is_boot))
original_actives(orig) ==
    {orig[i].ident : i \in {j \in DOMAIN orig : orig[j].is_boot /\ orig[j].active # ""}}
original_timeout(orig) == FirstLabel(orig, "Timeout:")
original_next(orig) == FirstLabel(orig, "BootNext:")

current_order(entries) ==
    IdentsOf(SelectSeq(entries, LAMBDA ns : ns.is_boot /\ ~ns.removed))
current_actives(entries) ==
    {entries[i].ident :
        i \in {j \in DOMAIN entries : entries[j].is_boot /\ entries[j].active # ""}}

\* line 295
order_changed(entries, orig, m) ==
    m.order /\ current_order(entries) # original_order(orig)

\* lines 298-306
simulated_actives(entries, m) == (current_actives(entries) \cup m.actives) \ m.inactives

\* the test of line 300 alone, without the simulation of lines 301-306
actives_changed_when_pending(entries, orig, m) ==
    m.actives # {} \/ m.inactives # {}

actives_changed(entries, orig, m) ==
    /\ (m.actives # {} \/ m.inactives # {})
    /\ simulated_actives(entries, m) # original_actives(orig)

\* lines 309-313
original_timeout_val(orig) ==
    IF original_timeout(orig) # None THEN Word0(original_timeout(orig)) ELSE None

timeout_changed(orig, m) ==
    /\ m.timeout # None
    /\ m.timeout # original_timeout_val(orig)

\* lines 316-318
next_changed(orig, m) ==
    /\ m.next # None
    /\ m.next # original_next(orig)

\* lines 321-322
removals_changed(m) == m.removes # {}
tags_changed(m) == DOMAIN m.tags # {}

\* the disjunction of lines 325-332 without its relabel term
DirtyWithoutTags(entries, orig, m) ==
    \/ order_changed(entries, orig, m)
    \/ actives_changed(entries, orig, m)
    \/ timeout_changed(orig, m)
    \/ next_changed(orig, m)
    \/ removals_changed(m)

\* lines 325-332
Dirty(entries, orig, m) ==
    \/ order_changed(entries, orig, m)
    \/ actives_changed(entries, orig, m)
    \/ timeout_changed(orig, m)
    \/ next_changed(orig, m)
    \/ removals_changed(m)
    \/ tags_changed(m)

update_dirty_state(entries, orig, m) ==
    [m EXCEPT !.dirty = Dirty(entries, orig, m)]

(***************************************************************************)
(* Python list operations, on 0-based positions.                           *)
(***************************************************************************)
At(s, i) == s[i + 1]
Swap(s, i, j) ==
    [k \in DOMAIN s |-> IF k = i + 1 THEN s[j + 1] ELSE IF k = j + 1 THEN s[i + 1] ELSE s[k]]
Pop(s, i) == SubSeq(s, 1, i) \o SubSeq(s, i + 2, Len(s))
Insert(s, i, x) == SubSeq(s, 1, i) \o <<x>> \o SubSeq(s, i + 1, Len(s))

\* d[k] = v on a dict kept as a function
DictSet(d, k, v) == [x \in DOMAIN d \cup {k} |-> IF x = k THEN v ELSE d[x]]

(***************************************************************************)
(* The key handlers of do_actions and do_key, as functions of the session  *)
(* s = [boot_entries, pick_pos, mods].  boot_idx and original_entries are  *)
(* read from the state: no handler assigns them.                           *)
(***************************************************************************)
Session == [boot_entries |-> boot_entries, pick_pos |-> pick_pos, mods |-> mods]

\* line 637 (and 576): boot_entry = self.boot_entries[self.win.pick_pos]
Picked(s) == At(s.boot_entries, s.pick_pos)

\* the move of lines 639-646 with the boundary test of line 643 against 0
do_up_past_boundary(s) ==
    LET boot_entry == Picked(s)
        pos == s.pick_pos
    IN IF /\ boot_entry.is_boot /\ ~boot_entry.removed
          /\ pos > 0
          /\ ~At(s.boot_entries, pos - 1).removed
       THEN [s EXCEPT !.boot_entries = Swap(@, pos - 1, pos),
                      !.pick_pos = pos - 1,
                      !.mods.order = TRUE]
       ELSE s

\* the move of lines 639-646 without the assignment of line 646
do_up_unflagged(s) ==
    LET boot_entry == Picked(s)
        pos == s.pick_pos
    IN IF /\ boot_entry.is_boot /\ ~boot_entry.removed
          /\ pos > boot_idx
          /\ ~At(s.boot_entries, pos - 1).removed
       THEN [s EXCEPT !.boot_entries = Swap(@, pos - 1, pos),
                      !.pick_pos = pos - 1]
       ELSE s

\* lines 639-646
do_up(s) ==
    LET boot_entry == Picked(s)
        pos == s.pick_pos
    IN IF /\ boot_entry.is_boot /\ ~boot_entry.removed
          /\ pos > boot_idx
          /\ ~At(s.boot_entries, pos - 1).removed
       THEN [s EXCEPT !.boot_entries = Swap(@, pos - 1, pos),
                      !.pick_pos = pos - 1,
                      !.mods.order = TRUE]
       ELSE s

\* the move of lines 648-655 without the second test of line 652
do_down_into_removed(s) ==
    LET boot_entry == Picked(s)
        pos == s.pick_pos
    IN IF /\ boot_entry.is_boot /\ ~boot_entry.removed
          /\ pos < Len(s.boot_entries) - 1
       THEN [s EXCEPT !.boot_entries = Swap(@, pos + 1, pos),
                      !.pick_pos = pos + 1,
                      !.mods.order = TRUE]
       ELSE s

\* the move of lines 648-655 without the assignment of line 654
do_down_cursor_stays(s) ==
    LET boot_entry == Picked(s)
        pos == s.pick_pos
    IN IF /\ boot_entry.is_boot /\ ~boot_entry.removed
          /\ pos < Len(s.boot_entries) - 1
          /\ ~At(s.boot_entries, pos + 1).removed
       THEN [s EXCEPT !.boot_entries = Swap(@, pos + 1, pos),
                      !.mods.order = TRUE]
       ELSE s

\* lines 648-655
do_down(s) ==
    LET boot_entry == Picked(s)
        pos == s.pick_pos
    IN IF /\ boot_entry.is_boot /\ ~boot_entry.removed
          /\ pos < Len(s.boot_entries) - 1
          /\ ~At(s.boot_entries, pos + 1).removed
       THEN [s EXCEPT !.boot_entries = Swap(@, pos + 1, pos),
                      !.pick_pos = pos + 1,
                      !.mods.order = TRUE]
       ELSE s

\* list.index(x), 1-based here
IndexOf(L, x) == CHOOSE i \in DOMAIN L : L[i] = x /\ \A j \in 1..(i - 1) : L[j] # x

\* lines 668-683 with the wrap of line 680 going to the first boot option
next_ident_wrapping_to_first(current, L, orig) ==
    IF current = orig \/ current = "---" THEN L[1]
    ELSE IF current \in Range(L) THEN
        IF IndexOf(L, current) + 1 <= Len(L)
        THEN L[IndexOf(L, current) + 1]
        ELSE L[1]
    ELSE L[1]

\* lines 668-683: the value the BootNext field cycles to
next_ident(current, L, orig) ==
    IF current = orig \/ current = "---" THEN L[1]
    ELSE IF current \in Range(L) THEN
        IF IndexOf(L, current) + 1 <= Len(L)
        THEN L[IndexOf(L, current) + 1]
        ELSE orig
    ELSE L[1]

\* lines 659-687: 'n' on the BootNext line
cycle_next(s) ==
    LET orig == original_next(original_entries)
        L == IdentsOf(SelectSeq(s.boot_entries, LAMBDA b : b.is_boot))
        nxt == next_ident(Picked(s).label, L, orig)
    IN IF L = <<>> THEN s
       ELSE [s EXCEPT !.boot_entries[s.pick_pos + 1].label = nxt,
                      !.mods.next = IF nxt # orig THEN nxt ELSE None]

\* lines 689-694: 'n' on a boot entry
set_next(s) ==
    [s EXCEPT !.boot_entries[1].label = Picked(s).ident,
              !.mods.next = Picked(s).ident]

\* lines 657-694 without the test of line 689: 'n' sets next on any other line
do_next_on_any_line(s) ==
    IF Picked(s).ident = "BootNext:" THEN cycle_next(s)
    ELSE set_next(s)

\* lines 657-694
do_next(s) ==
    IF Picked(s).ident = "BootNext:" THEN cycle_next(s)
    ELSE IF Picked(s).is_boot THEN set_next(s)
    ELSE s

\* the toggle of lines 696-706 without the discards of lines 701 and 706
do_star_accumulating(s) ==
    LET boot_entry == Picked(s)
        ident == boot_entry.ident
    IN IF ~boot_entry.is_boot THEN s
       ELSE IF boot_entry.active # ""
       THEN [s EXCEPT !.boot_entries[s.pick_pos + 1].active = "",
                      !.mods.inactives = @ \cup {ident}]
       ELSE [s EXCEPT !.boot_entries[s.pick_pos + 1].active = "*",
                      !.mods.actives = @ \cup {ident}]

\* lines 696-706
do_star(s) ==
    LET boot_entry == Picked(s)
        ident == boot_entry.ident
    IN IF ~boot_entry.is_boot THEN s
       ELSE IF boot_entry.active # ""
       THEN [s EXCEPT !.boot_entries[s.pick_pos + 1].active = "",
                      !.mods.actives = @ \ {ident},
                      !.mods.inactives = @ \cup {ident}]
       ELSE [s EXCEPT !.boot_entries[s.pick_pos + 1].active = "*",
                      !.mods.actives = @ \cup {ident},
                      !.mods.inactives = @ \ {ident}]

\* lines 716-720: first removed boot entry other than the picked one, or the end
insert_point(entries, pos) ==
    LET hits == {i \in boot_idx..(Len(entries) - 1) :
                    /\ At(entries, i).is_boot /\ At(entries, i).removed /\ i # pos}
    IN IF hits = {} THEN Len(entries)
       ELSE CHOOSE i \in hits : \A j \in hits : i <= j

\* the un-remove of lines 710-729 without the adjustment of lines 726-727;
\* list.insert past the end appends
restore_unadjusted(s) ==
    LET pos == s.pick_pos
        cleared == [s.boot_entries EXCEPT ![pos + 1].removed = FALSE]
        found == insert_point(cleared, pos)
        popped == Pop(cleared, pos)
        at == IF found > Len(popped) THEN Len(popped) ELSE found
    IN [s EXCEPT !.boot_entries = Insert(popped, at, At(cleared, pos)),
                 !.pick_pos = found,
                 !.mods.removes = @ \ {Picked(s).ident},
                 !.mods.order = TRUE]

\* the un-remove of lines 710-729 without the discard of line 713
restore_keeping_pending(s) ==
    LET pos == s.pick_pos
        cleared == [s.boot_entries EXCEPT ![pos + 1].removed = FALSE]
        found == insert_point(cleared, pos)
        insert_pos == IF pos < found THEN found - 1 ELSE found
    IN [s EXCEPT !.boot_entries = Insert(Pop(cleared, pos), insert_pos, At(cleared, pos)),
                 !.pick_pos = insert_pos,
                 !.mods.order = TRUE]

\* the un-remove of lines 710-729 without the move of lines 723-728
restore_in_place(s) ==
    [s EXCEPT !.boot_entries[s.pick_pos + 1].removed = FALSE,
              !.mods.removes = @ \ {Picked(s).ident},
              !.mods.order = TRUE]

\* lines 710-729: un-remove
restore(s) ==
    LET pos == s.pick_pos
        cleared == [s.boot_entries EXCEPT ![pos + 1].removed = FALSE]
        found == insert_point(cleared, pos)
        insert_pos == IF pos < found THEN found - 1 ELSE found
    IN [s EXCEPT !.boot_entries = Insert(Pop(cleared, pos), insert_pos, At(cleared, pos)),
                 !.pick_pos = insert_pos,
                 !.mods.removes = @ \ {Picked(s).ident},
                 !.mods.order = TRUE]

\* the removal of lines 730-740 without the move of line 738
remove_in_place(s) ==
    LET ident == Picked(s).ident
    IN [s EXCEPT !.boot_entries[s.pick_pos + 1].removed = TRUE,
                 !.mods.removes = @ \cup {ident},
                 !.mods.actives = @ \ {ident},
                 !.mods.inactives = @ \ {ident},
                 !.mods.order = TRUE]

\* lines 730-740: mark for removal and move to the bottom
remove(s) ==
    LET pos == s.pick_pos
        ident == Picked(s).ident
        marked == [s.boot_entries EXCEPT ![pos + 1].removed = TRUE]
    IN [s EXCEPT !.boot_entries = Append(Pop(marked, pos), At(marked, pos)),
                 !.mods.removes = @ \cup {ident},
                 !.mods.actives = @ \ {ident},
                 !.mods.inactives = @ \ {ident},
                 !.mods.order = TRUE]

\* lines 708-742
do_remove(s) ==
    IF ~Picked(s).is_boot THEN s
    ELSE IF Picked(s).removed THEN restore(s)
    ELSE remove(s)

\* lines 744-756: answer is what ends the prompt loop, '' (abort) or an
\* accepted label
do_tag(s, answer) ==
    IF ~Picked(s).is_boot \/ answer = "" THEN s
    ELSE [s EXCEPT !.boot_entries[s.pick_pos + 1].label = answer,
                   !.mods.tags = DictSet(@, Picked(s).ident, answer)]

\* lines 576-592: answer is what ends the prompt loop, '' (abort) or an
\* accepted digit string
do_modify(s, answer) ==
    IF Picked(s).ident # "Timeout:" \/ answer = "" THEN s
    ELSE [s EXCEPT !.boot_entries[s.pick_pos + 1].label = answer \o " seconds",
                   !.mods.timeout = answer]

(***************************************************************************)
(* write(): the command list.  A set (removes, actives, inactives) is      *)
(* iterated in an order the program does not fix; r, a, i and t are the    *)
(* orders in which the four loops of lines 410-417 visit their collection. *)
(***************************************************************************)
Cmd(flag, bootnum, arg) == [flag |-> flag, bootnum |-> bootnum, arg |-> arg]

Orderings(S) == {s \in [1..Cardinality(S) -> S] : Range(s) = S}

\* the list of lines 408-425 with the --bootnext block ahead of --bootorder
write_cmds_next_first(entries, m, r, a, i, t) ==
    [k \in DOMAIN r |-> Cmd("--delete-bootnum", r[k], <<>>)]
    \o [k \in DOMAIN a |-> Cmd("--active", a[k], <<>>)]
    \o [k \in DOMAIN i |-> Cmd("--inactive", i[k], <<>>)]
    \o [k \in DOMAIN t |-> Cmd("--label", t[k], <<m.tags[t[k]]>>)]
    \o (IF Truthy(m.next) THEN <<Cmd("--bootnext", "", <<m.next>>)>> ELSE <<>>)
    \o (IF m.order THEN <<Cmd("--bootorder", "", current_order(entries))>> ELSE <<>>)
    \o (IF Truthy(m.timeout) THEN <<Cmd("--timeout", "", <<m.timeout>>)>> ELSE <<>>)

\* lines 408-425
write_cmds(entries, m, r, a, i, t) ==
    [k \in DOMAIN r |-> Cmd("--delete-bootnum", r[k], <<>>)]
    \o [k \in DOMAIN a |-> Cmd("--active", a[k], <<>>)]
    \o [k \in DOMAIN i |-> Cmd("--inactive", i[k], <<>>)]
    \o [k \in DOMAIN t |-> Cmd("--label", t[k], <<m.tags[t[k]]>>)]
    \o (IF m.order THEN <<Cmd("--bootorder", "", current_order(entries))>> ELSE <<>>)
    \o (IF Truthy(m.next) THEN <<Cmd("--bootnext", "", <<m.next>>)>> ELSE <<>>)
    \o (IF Truthy(m.timeout) THEN <<Cmd("--timeout", "", <<m.timeout>>)>> ELSE <<>>)

\* every list write() can print in the session (entries, m)
CmdLists(entries, m) ==
    {write_cmds(entries, m, r, a, i, t) :
        r \in Orderings(m.removes), a \in Orderings(m.actives),
        i \in Orderings(m.inactives), t \in Orderings(DOMAIN m.tags)}

(***************************************************************************)
(* Inputs.                                                                 *)
(***************************************************************************)
\* the Boot lines of the identifiers b, in that order; the active marker
\* alternates, so a repeated identifier comes with both markers
BootLines(b) ==
    [k \in DOMAIN b |->
        BootLine(b[k], IF k % 2 = 1 THEN "*" ELSE "", "Linux")]

Reverse(s) == [k \in DOMAIN s |-> s[Len(s) + 1 - k]]

\* what efibootmgr prints for n boot options
SessionText(n, nextval) ==
    <<SysLine("BootCurrent:", "0001"), SysLine("Timeout:", "5 seconds")>>
    \o (IF nextval # None THEN <<SysLine("BootNext:", nextval)>> ELSE <<>>)
    \o <<OrderLine(Reverse(SubSeq(AllIdents, 1, n)))>>
    \o BootLines(SubSeq(AllIdents, 1, n))

\* the sessions explored: a test file with one boot option, BootNext unset
\* or set; efibootmgr itself with three boot options and BootNext unset, or
\* with two and BootNext set
SessionInputs ==
    {[text |-> SessionText(1, nv), testfile |-> TRUE] : nv \in {None, "0001"}}
    \cup {[text |-> SessionText(3, None), testfile |-> FALSE],
          [text |-> SessionText(2, "0001"), testfile |-> FALSE]}

\* system lines before and after the Boot lines
SysParts ==
    { <<<<>>, <<>>>>,
      <<<<SysLine("Timeout:", "5 seconds")>>, <<>>>>,
      <<<<SysLine("BootNext:", "0001"), SysLine("BootCurrent:", "0001")>>,
        <<SysLine("Timeout:", "5 seconds")>>>>,
      <<<<SysLine("BootNext:", "0001"), SysLine("Timeout:", "5 seconds"), ShortLine("")>>,
        <<SysLine("BootNext:", "0002"), SysLine("Timeout:", "10 seconds")>>>> }

OrdParts ==
    {<<>>, <<ShortLine("BootOrder:")>>}
    \cup {<<OrderLine(o)>> : o \in SeqsUpTo(Idents \cup {AbsentIdent}, MaxLen) \ {<<>>}}

LoadTexts ==
    {sys[1] \o ord \o BootLines(b) \o sys[2] :
        sys \in SysParts, ord \in OrdParts, b \in SeqsUpTo(Idents, MaxLen)}

(***************************************************************************)
(* The state machine.                                                      *)
(***************************************************************************)
Unloaded ==
    /\ status = "new"
    /\ curses = FALSE
    /\ boot_entries = <<>>
    /\ original_entries = <<>>
    /\ boot_idx = 0
    /\ pick_pos = 0
    /\ mods = BootModifications
    /\ shown = <<>>
    /\ ran = <<>>
    /\ nops = 0

Init ==
    /\ \E input \in SessionInputs : raw = input.text /\ testfile = input.testfile
    /\ Unloaded

InitLoad ==
    /\ raw \in LoadTexts
    /\ testfile \in BOOLEAN
    /\ Unloaded

\* the screen is redrawn: what the last write() printed is gone
Redraw == shown' = <<>> /\ ran' = <<>>

\* the menu is on the screen and win.prompt() waits for a key (line 485)
AtPrompt == status = "ui" /\ shown = <<>>

\* reinit without the assignment of line 189: the pending changes survive
reinit_keeping_mods ==
    LET d == digest_boots(raw', testfile) IN
    IF d.ok
    THEN /\ boot_entries' = d.rv
         /\ original_entries' = d.rv
         /\ boot_idx' = d.boot_idx
         /\ pick_pos' = d.boot_idx
         /\ mods' = update_dirty_state(d.rv, d.rv, mods)
         /\ status' = "ui"
         /\ nops' = 0
    ELSE /\ boot_entries' = <<>>
         /\ boot_idx' = 0
         /\ mods' = BootModifications
         /\ status' = "crashed"
         /\ UNCHANGED <<original_entries, pick_pos, nops>>

\* reinit (lines 186-197), followed by the pick_pos assignment of its caller
\* (lines 183, 197, 401, 443) and by the update_dirty_state of the next
\* main_loop iteration; an exception of digest_boots ends the program.
\* raw' is the text this load reads.
reinit ==
    LET d == digest_boots(raw', testfile) IN
    IF d.ok
    THEN /\ boot_entries' = d.rv
         /\ original_entries' = d.rv
         /\ boot_idx' = d.boot_idx
         /\ pick_pos' = d.boot_idx
         /\ mods' = update_dirty_state(d.rv, d.rv, BootModifications)
         /\ status' = "ui"
         /\ nops' = 0
    ELSE /\ boot_entries' = <<>>
         /\ boot_idx' = 0
         /\ mods' = BootModifications
         /\ status' = "crashed"
         /\ UNCHANGED <<original_entries, pick_pos, nops>>

\* EfiBootDude.__init__ (lines 143-184)
Construct ==
    /\ status = "new"
    /\ UNCHANGED <<raw, testfile, shown, ran>>
    /\ reinit
    /\ curses' = (status' = "ui")

Positions == 0..(Len(boot_entries) - 1)

\* win.prompt() (line 485): before it returns a key the cursor keys, which
\* the window handles itself, may have put the cursor on any line p
Prompted(p) == [Session EXCEPT !.pick_pos = p]

\* get_actions (lines 504-536): the keys of the actions offered on the
\* line of the cursor (the verbs shown with them are left out)
get_actions(s) ==
    LET digests == s.boot_entries
        pos == s.pick_pos
    IN IF ~(0 <= pos /\ pos < Len(digests)) THEN {}
       ELSE LET boot_entry == At(digests, pos) IN
            (IF s.mods.dirty THEN {"w"} ELSE {})
            \cup (IF boot_entry.is_boot
                  THEN (IF ~boot_entry.removed
                        THEN (IF pos > boot_idx THEN {"u"} ELSE {})
                             \cup (IF pos < Len(digests) - 1 /\ ~At(digests, pos + 1).removed
                                   THEN {"d"} ELSE {})
                             \cup {"n", "t", "*"}
                        ELSE {})
                       \cup {"r"}
                  ELSE IF boot_entry.ident = "BootNext:" THEN {"n"}
                  ELSE IF boot_entry.ident = "Timeout:" THEN {"m"}
                  ELSE {})
            \cup (IF ~s.mods.dirty THEN {"b"} ELSE {})

\* the iteration below without the recomputation of line 481: the dirty
\* flag is the one the handler left
Edit_without_recompute(p, h) ==
    /\ AtPrompt
    /\ nops < MaxOps
    /\ h # Prompted(p)
    /\ boot_entries' = h.boot_entries
    /\ pick_pos' = h.pick_pos
    /\ mods' = h.mods
    /\ nops' = nops + 1
    /\ Redraw
    /\ UNCHANGED <<raw, testfile, status, curses, original_entries, boot_idx>>

\* the iteration below when the snapshot is a copy of the list alone and
\* holds the entries of the table themselves: it shows their new fields
Edit_sharing_entries(p, h) ==
    /\ AtPrompt
    /\ nops < MaxOps
    /\ h # Prompted(p)
    /\ boot_entries' = h.boot_entries
    /\ pick_pos' = h.pick_pos
    /\ original_entries' =
          [i \in DOMAIN original_entries |->
              h.boot_entries[CHOOSE j \in DOMAIN h.boot_entries :
                                h.boot_entries[j].ident = original_entries[i].ident]]
    /\ mods' = update_dirty_state(h.boot_entries, original_entries', h.mods)
    /\ nops' = nops + 1
    /\ Redraw
    /\ UNCHANGED <<raw, testfile, status, curses, boot_idx>>

\* One main_loop iteration on an action key: win.prompt() returns the key
\* with the cursor on line p, do_key and do_actions run with that one flag
\* set, and the next iteration recomputes the dirty flag (line 481).  h is
\* the session the handler leaves; a key press that changes nothing but the
\* cursor is left out (the next prompt moves the cursor anyway).
Edit(p, h) ==
    /\ AtPrompt
    /\ nops < MaxOps
    /\ h # Prompted(p)
    /\ boot_entries' = h.boot_entries
    /\ pick_pos' = h.pick_pos
    /\ mods' = update_dirty_state(h.boot_entries, original_entries, h.mods)
    /\ nops' = nops + 1
    /\ Redraw
    /\ UNCHANGED <<raw, testfile, status, curses, original_entries, boot_idx>>

Up == \E p \in Positions : Edit(p, do_up(Prompted(p)))
Down == \E p \in Positions : Edit(p, do_down(Prompted(p)))
NextKey == \E p \in Positions : Edit(p, do_next(Prompted(p)))
Star == \E p \in Positions : Edit(p, do_star(Prompted(p)))
Remove == \E p \in Positions : Edit(p, do_remove(Prompted(p)))
Tag(typed) == \E p \in Positions : Edit(p, do_tag(Prompted(p), tag_answer(typed)))
Modify(typed) == \E p \in Positions : Edit(p, do_modify(Prompted(p), timeout_answer(typed)))

\* os.system(cmd): the command has run and left the exit status code
Ran(cmd, code) ==
    [flag |-> cmd.flag, bootnum |-> cmd.bootnum, arg |-> cmd.arg, code |-> code]

\* a loop that gives up at the first command that fails
RECURSIVE run_cmds_until_failure(_, _)
run_cmds_until_failure(cmds, codes) ==
    IF cmds = <<>> THEN <<>>
    ELSE IF Head(codes) # 0 THEN <<Ran(Head(cmds), Head(codes))>>
    ELSE <<Ran(Head(cmds), Head(codes))>> \o run_cmds_until_failure(Tail(cmds), Tail(codes))

\* lines 436-437: for cmd in cmds: os.system(...), the status only echoed;
\* codes[k] is the exit status of the k-th command
RECURSIVE run_cmds(_, _)
run_cmds(cmds, codes) ==
    IF cmds = <<>> THEN <<>>
    ELSE <<Ran(Head(cmds), Head(codes))>> \o run_cmds(Tail(cmds), Tail(codes))

\* the exit statuses of n commands: every one succeeds, or every one fails
Statuses(n) == {[k \in 1..n |-> code] : code \in {0, 1}}

\* what the load after executed commands may read: the test file as it
\* is, or whatever efibootmgr prints for the firmware the commands left
ReloadTexts ==
    IF testfile THEN {raw}
    ELSE {input.text : input \in {i \in SessionInputs : ~i.testfile}}

\* 'w' (lines 622-624, 404-443): nothing unless dirty; the commands are
\* printed, run if the answer starts with 'y', and the table is reloaded
Write(yes) ==
    /\ AtPrompt
    /\ mods.dirty
    /\ UNCHANGED testfile
    /\ \E cmds \in CmdLists(boot_entries, mods) :
        /\ shown' = cmds
        /\ IF yes
           THEN /\ \E codes \in Statuses(Len(cmds)) : ran' = run_cmds(cmds, codes)
                /\ raw' \in ReloadTexts
                /\ reinit
                /\ curses' = (status' = "ui")
           ELSE /\ ran' = <<>>
                /\ pick_pos' = boot_idx
                /\ UNCHANGED <<raw, status, curses, boot_entries, original_entries,
                               boot_idx, mods, nops>>

\* what a reload at the menu may read: the texts of ReloadTexts, or one
\* that has lost its BootOrder line
LaterTexts ==
    ReloadTexts \cup {SelectSeq(raw, LAMBDA line : line.key # "BootOrder:")}

\* ESC (lines 611-620): reload, after a 'y' when dirty; the window stays
\* on the screen throughout
Reset(yes) ==
    /\ AtPrompt
    /\ UNCHANGED <<testfile, curses>>
    /\ IF mods.dirty /\ ~yes
       THEN UNCHANGED <<raw, status, boot_entries, original_entries, boot_idx,
                        pick_pos, mods, nops>>
       ELSE raw' \in LaterTexts /\ reinit
    /\ Redraw

\* sys.exit (line 609): the session is gone
Exit ==
    /\ status' = "exited"
    /\ curses' = FALSE
    /\ boot_entries' = <<>>
    /\ original_entries' = <<>>
    /\ boot_idx' = 0
    /\ pick_pos' = 0
    /\ mods' = BootModifications
    /\ nops' = 0

\* 'q', 'x' (lines 600-609): exit, after a 'y' when dirty
Quit(yes) ==
    /\ AtPrompt
    /\ IF mods.dirty /\ ~yes
       THEN UNCHANGED <<status, curses, boot_entries, original_entries, boot_idx,
                        pick_pos, mods, nops>>
       ELSE Exit
    /\ Redraw
    /\ UNCHANGED <<raw, testfile>>

\* 'sudo reboot now' (line 395) takes the machine down: the session is gone
Shutdown ==
    /\ status' = "rebooted"
    /\ curses' = FALSE
    /\ boot_entries' = <<>>
    /\ original_entries' = <<>>
    /\ boot_idx' = 0
    /\ pick_pos' = 0
    /\ mods' = BootModifications
    /\ nops' = 0

\* 'b' without the test of line 628: the machine is rebooted with changes
\* pending
Boot_despite_pending(down) ==
    /\ AtPrompt
    /\ UNCHANGED testfile
    /\ IF down
       THEN Shutdown /\ UNCHANGED raw
       ELSE raw' \in LaterTexts /\ reinit /\ curses' = (status' = "ui")
    /\ Redraw

\* 'b' (lines 626-635, 392-402): refused when dirty; after 'reboot' the
\* machine goes down, or the command returns and the table is reloaded
Boot(down) ==
    /\ AtPrompt
    /\ ~mods.dirty
    /\ UNCHANGED testfile
    /\ IF down
       THEN Shutdown /\ UNCHANGED raw
       ELSE raw' \in LaterTexts /\ reinit /\ curses' = (status' = "ui")
    /\ Redraw

\* write() has printed its list (and run it): curses is started again and
\* the next main_loop iteration draws the menu (lines 442, 481-485)
Menu ==
    /\ status = "ui"
    /\ shown # <<>>
    /\ Redraw
    /\ UNCHANGED <<raw, testfile, status, curses, boot_entries, original_entries,
                   boot_idx, pick_pos, mods, nops>>

Next ==
    \/ Construct
    \/ Menu
    \/ Up
    \/ Down
    \/ NextKey
    \/ Star
    \/ Remove
    \/ \E typed \in TagTyped : Tag(typed)
    \/ \E typed \in TimeoutTyped : Modify(typed)
    \/ \E yes \in BOOLEAN : Write(yes)
    \/ \E yes \in BOOLEAN : Reset(yes)
    \/ \E yes \in BOOLEAN : Quit(yes)
    \/ \E down \in BOOLEAN : Boot(down)

Spec == Init /\ [][Next]_vars

\* the load alone, over every text of LoadTexts
NextLoad == Construct

SpecLoad == InitLoad /\ [][NextLoad]_vars

(***************************************************************************)
(* Properties of the load.                                                 *)
(***************************************************************************)
Loaded == status = "ui"

\* what the text says, read off the lines themselves
IsOrderLine(line) == line.ntok >= 2 /\ line.key = "BootOrder:"
IsBootLine(line) == line.ntok >= 2 /\ line.key # "BootOrder:" /\ line.mat
IsSysLine(line) == line.ntok >= 2 /\ line.key # "BootOrder:" /\ ~line.mat

RECURSIVE Dedup(_)
Dedup(s) ==
    IF s = <<>> THEN <<>>
    ELSE IF Last(s) \in Range(Front(s)) THEN Dedup(Front(s))
    ELSE Append(Dedup(Front(s)), Last(s))

\* the boot-option identifiers of the text, in encounter order
InputIdents(text) ==
    Dedup([k \in DOMAIN SelectSeq(text, IsBootLine) |-> SelectSeq(text, IsBootLine)[k].ident])

\* the identifiers the (last) BootOrder line names, empty without one
DeclaredOrder(text) ==
    IF SelectSeq(text, IsOrderLine) = <<>> THEN <<>>
    ELSE Last(SelectSeq(text, IsOrderLine)).info

\* the keys of the system lines other than BootNext, in encounter order
InputSysKeys(text) ==
    LET sys == SelectSeq(text, LAMBDA line : IsSysLine(line) /\ line.key # "BootNext:")
    IN [k \in DOMAIN sys |-> sys[k].key]

\* boot options named by the declared order, in its sequence, then the others
ExpectedBootOrder(text) ==
    LET ids == InputIdents(text)
        named == Dedup(SelectSeq(DeclaredOrder(text), LAMBDA x : x \in Range(ids)))
    IN named \o SelectSeq(ids, LAMBDA x : x \notin Range(named))

BootPart(entries) == IdentsOf(SelectSeq(entries, LAMBDA ns : ns.is_boot))
SysPart(entries) == IdentsOf(SelectSeq(entries, LAMBDA ns : ~ns.is_boot))

\* C1: a text without a BootOrder value loads without error, the boot
\* options following the system fields in encounter order
C1_MissingOrderLoads ==
    (status # "new" /\ SelectSeq(raw, IsOrderLine) = <<>>) =>
        /\ Loaded
        /\ BootPart(boot_entries) = InputIdents(raw)
        /\ BootPart(SubSeq(boot_entries, 1, boot_idx)) = <<>>

\* C2: after every load the table is the system fields in parse order, the
\* boot options the BootOrder names in its sequence, the other boot options
\* in encounter order: every identifier of the input once
C2_LoadOrder ==
    Loaded =>
        /\ SysPart(SubSeq(boot_entries, 1, boot_idx)) = <<"BootNext:">> \o InputSysKeys(raw)
        /\ IdentsOf(SubSeq(boot_entries, boot_idx + 1, Len(boot_entries)))
             = ExpectedBootOrder(raw)
        /\ Len(boot_entries) = boot_idx + Len(InputIdents(raw))

\* the same for the text efibootmgr itself prints (no test file)
LoadOrderFromTool == ~testfile => C2_LoadOrder

(***************************************************************************)
(* Properties of the dirty reconciliation.                                 *)
(***************************************************************************)
\* the entry of identifier ident (identifiers are unique in a table)
EntryOf(entries, ident) == entries[CHOOSE i \in DOMAIN entries : entries[i].ident = ident]
AllKeys(entries) == Range(IdentsOf(entries))
BootKeys(entries) == Range(BootPart(entries))

\* the identifiers of the boot options not removed, in table order
WorkingSequence == IdentsOf(SelectSeq(boot_entries, LAMBDA ns : ns.is_boot /\ ~ns.removed))
\* the identifiers of the boot options of the snapshot, in table order
SnapshotSequence == BootPart(original_entries)
SnapshotActives == {x \in BootKeys(original_entries) : EntryOf(original_entries, x).active # ""}

OrderDiffers == WorkingSequence # SnapshotSequence
SomeRemoved == \E i \in DOMAIN boot_entries : boot_entries[i].removed
ActiveDiffers ==
    \E x \in BootKeys(original_entries) :
        EntryOf(boot_entries, x).active # EntryOf(original_entries, x).active
LabelDiffers ==
    \E x \in BootKeys(original_entries) :
        EntryOf(boot_entries, x).label # EntryOf(original_entries, x).label
BootNextDiffers ==
    EntryOf(boot_entries, "BootNext:").label # EntryOf(original_entries, "BootNext:").label
TimeoutDiffers ==
    /\ "Timeout:" \in AllKeys(original_entries)
    /\ Word0(EntryOf(boot_entries, "Timeout:").label)
         # Word0(EntryOf(original_entries, "Timeout:").label)

VisibleDiff ==
    \/ OrderDiffers \/ SomeRemoved \/ ActiveDiffers
    \/ LabelDiffers \/ BootNextDiffers \/ TimeoutDiffers

\* C3: whenever the working table differs from the snapshot in a
\* user-visible way, the dirty flag is true
C3_VisibleDiffIsDirty == Loaded => (VisibleDiff => mods.dirty)

\* C4: whenever the working table equals the snapshot field for field, the
\* dirty flag is false, whatever edits led there
C4_CancelledEditsAreClean == (Loaded /\ boot_entries = original_entries) => ~mods.dirty

\* C5: the order category is true exactly when the sequence of non-removed
\* boot-option identifiers differs from the snapshot's sequence
C5_OrderCategory ==
    Loaded => (order_changed(boot_entries, original_entries, mods) <=> OrderDiffers)

\* a move or a removal has changed the order, and the category reports it
C5_Witness ==
    /\ Loaded /\ OrderDiffers /\ ~SomeRemoved
    /\ order_changed(boot_entries, original_entries, mods)

\* C6: the active-set category is true exactly when the snapshot's active
\* set, plus the pending activations, minus the pending deactivations,
\* differs from the snapshot's active set
C6_ActiveCategory ==
    Loaded =>
        (actives_changed(boot_entries, original_entries, mods)
            <=> ((SnapshotActives \cup mods.actives) \ mods.inactives) # SnapshotActives)

\* the number the snapshot's Timeout label starts with
SnapshotTimeout == IntOf(Word0(EntryOf(original_entries, "Timeout:").label))
OnlyTimeoutEdited ==
    /\ ~mods.order /\ mods.removes = {} /\ DOMAIN mods.tags = {}
    /\ mods.next = None /\ mods.actives = {} /\ mods.inactives = {}

NextCategory ==
    mods.next # None /\ mods.next # EntryOf(original_entries, "BootNext:").label
RemovalsCategory == mods.removes # {}
RelabelsCategory == DOMAIN mods.tags # {}

\* C8: the dirty flag is the disjunction of the six categories; next-boot:
\* a pending override that differs from the snapshot's BootNext; removals:
\* the removal set is not empty; relabels: the relabel map is not empty
C8_DirtyIsDisjunction ==
    Loaded =>
        (mods.dirty <=>
            \/ order_changed(boot_entries, original_entries, mods)
            \/ actives_changed(boot_entries, original_entries, mods)
            \/ timeout_changed(original_entries, mods)
            \/ NextCategory
            \/ RemovalsCategory
            \/ RelabelsCategory)

\* dirty by a relabel alone
C8_Witness ==
    /\ Loaded /\ mods.dirty /\ RelabelsCategory
    /\ ~RemovalsCategory /\ ~NextCategory
    /\ ~order_changed(boot_entries, original_entries, mods)
    /\ ~actives_changed(boot_entries, original_entries, mods)
    /\ ~timeout_changed(original_entries, mods)

(***************************************************************************)
(* Properties of the command list.                                         *)
(***************************************************************************)
Rank(flag) ==
    CASE flag = "--delete-bootnum" -> 1
      [] flag = "--active" -> 2
      [] flag = "--inactive" -> 3
      [] flag = "--label" -> 4
      [] flag = "--bootorder" -> 5
      [] flag = "--bootnext" -> 6
      [] flag = "--timeout" -> 7

With(cmds, flag) == SelectSeq(cmds, LAMBDA c : c.flag = flag)
Bootnums(cmds, flag) == [k \in DOMAIN With(cmds, flag) |-> With(cmds, flag)[k].bootnum]
OncePer(cmds, flag, S) ==
    /\ Range(Bootnums(cmds, flag)) = S
    /\ Len(With(cmds, flag)) = Cardinality(S)

\* no command of a later category precedes one of an earlier category
CategoryOrdered(cmds) ==
    \A i, j \in DOMAIN cmds : i < j => Rank(cmds[i].flag) <= Rank(cmds[j].flag)

\* cmds is the list the claim describes for the table entries and the
\* pending changes m
ListFor(cmds, entries, m) ==
    /\ CategoryOrdered(cmds)
    /\ OncePer(cmds, "--delete-bootnum", m.removes)
    /\ OncePer(cmds, "--active", m.actives)
    /\ OncePer(cmds, "--inactive", m.inactives)
    /\ OncePer(cmds, "--label", DOMAIN m.tags)
    /\ \A k \in DOMAIN cmds :
          cmds[k].flag = "--label" => cmds[k].arg = <<m.tags[cmds[k].bootnum]>>
    /\ Len(With(cmds, "--bootorder")) <= 1
    /\ Len(With(cmds, "--bootnext")) <= 1
    /\ Len(With(cmds, "--timeout")) <= 1
    /\ \A k \in DOMAIN cmds :
          cmds[k].flag = "--bootorder" =>
              cmds[k].arg = IdentsOf(SelectSeq(entries, LAMBDA ns : ns.is_boot /\ ~ns.removed))

\* a write has printed its list and was declined: table and pending changes
\* are those the list was made from
Declined == Loaded /\ shown # <<>> /\ ran = <<>>

\* C9: the commands come in the fixed category order, one per identifier
\* of each pending set, at most one --bootorder, --bootnext and --timeout,
\* and --bootorder lists the non-removed boot options in working order
C9_CommandOrder ==
    /\ CategoryOrdered(shown)
    /\ Declined => ListFor(shown, boot_entries, mods)
    /\ (Loaded /\ mods.dirty) =>
          \A cmds \in CmdLists(boot_entries, mods) : ListFor(cmds, boot_entries, mods)

\* a write printed a removal, a relabel, the order and the next boot
C9_Witness ==
    /\ Declined
    /\ With(shown, "--delete-bootnum") # <<>>
    /\ With(shown, "--label") # <<>>
    /\ With(shown, "--bootorder") # <<>>
    /\ With(shown, "--bootnext") # <<>>

\* C10: the list holds a --bootorder command exactly when the working
\* sequence of non-removed boot options differs from the snapshot's
C10_BootorderIffChanged ==
    Declined => (With(shown, "--bootorder") # <<>> <=> OrderDiffers)

(***************************************************************************)
(* Properties of remove and restore.                                       *)
(***************************************************************************)
\* the table and the pending changes are those of a load
Fresh == Loaded /\ boot_entries = original_entries /\ mods = BootModifications

\* 0-based position of the entry of identifier ident
PositionOf(entries, ident) ==
    (CHOOSE i \in DOMAIN entries : entries[i].ident = ident) - 1

\* this step is the removal of boot option x from a freshly loaded table
RemovesFromFresh(x) == Fresh /\ status' = "ui" /\ mods'.removes = {x}

\* C11: removing one boot option X from a freshly loaded table sets its
\* removed flag, moves it to the last position, leaves the cursor index
\* where it was, and the command list is one --delete-bootnum of X followed
\* by one --bootorder of the other identifiers in their order
C11_RemoveOnFresh ==
    [][\A x \in BootKeys(boot_entries) :
          RemovesFromFresh(x) =>
              /\ EntryOf(boot_entries', x).removed
              /\ Last(boot_entries').ident = x
              /\ Front(boot_entries') = Pop(boot_entries, PositionOf(boot_entries, x))
              /\ pick_pos' = PositionOf(boot_entries, x)
              /\ CmdLists(boot_entries', mods')
                   = {<<Cmd("--delete-bootnum", x, <<>>),
                        Cmd("--bootorder", "",
                            SelectSeq(BootPart(boot_entries), LAMBDA y : y # x))>>}]_vars

\* a write after the removal of the first of several boot options alone
\* printed the two commands
C11_Witness ==
    /\ Declined
    /\ Len(shown) = 2
    /\ shown[1].flag = "--delete-bootnum"
    /\ shown[2].flag = "--bootorder" /\ Len(shown[2].arg) = 2
    /\ Last(boot_entries).ident = shown[1].bootnum
    /\ Last(boot_entries).ident = Head(SnapshotSequence)
    /\ mods.removes = {shown[1].bootnum}

(***************************************************************************)
(* Properties of write.                                                    *)
(***************************************************************************)
\* a write has run its commands and reloaded the table
Confirmed == ran # <<>>

Executed(run) ==
    [k \in DOMAIN run |-> Cmd(run[k].flag, run[k].bootnum, run[k].arg)]

BootPositions == {i \in DOMAIN boot_entries : boot_entries[i].is_boot}

\* C15: every non-removed boot option precedes every removed boot option,
\* and no entry is deleted from the working table: its identifiers, each
\* once, and its length are those of the snapshot
C15_RemovedAtTail ==
    Loaded =>
        /\ \A i, j \in BootPositions :
              (boot_entries[i].removed /\ ~boot_entries[j].removed) => j < i
        /\ Len(boot_entries) = Len(original_entries)
        /\ AllKeys(boot_entries) = AllKeys(original_entries)
        /\ \A i, j \in DOMAIN boot_entries :
              boot_entries[i].ident = boot_entries[j].ident => i = j

\* the last and the first boot option of the snapshot are marked removed
\* and end the table, in this order, behind the one that is not
C15_Witness ==
    /\ Loaded
    /\ Cardinality({i \in BootPositions : boot_entries[i].removed}) = 2
    /\ Cardinality({i \in BootPositions : ~boot_entries[i].removed}) = 1
    /\ Cardinality(mods.removes) = 2
    /\ Last(boot_entries).ident = Head(SnapshotSequence)
    /\ boot_entries[Len(boot_entries) - 1].ident = Last(SnapshotSequence)

\* C16: the first boot_idx entries of the working table are the system
\* fields, in their load order, and every entry from the boundary on is a
\* boot option
C16_SystemPrefix ==
    Loaded =>
        /\ boot_idx <= Len(boot_entries)
        /\ \A i \in DOMAIN boot_entries : boot_entries[i].is_boot <=> i > boot_idx
        /\ IdentsOf(SubSeq(boot_entries, 1, boot_idx))
             = IdentsOf(SubSeq(original_entries, 1, boot_idx))
        /\ IdentsOf(SubSeq(boot_entries, 1, boot_idx))
             = SysPart(digest_boots(raw, testfile).rv)

\* a boot option has moved up to the boundary, behind three system fields
C16_Witness ==
    /\ Loaded /\ ~SomeRemoved
    /\ boot_idx = 3
    /\ Len(boot_entries) > boot_idx + 1
    /\ boot_entries[boot_idx + 1].ident # original_entries[boot_idx + 1].ident

\* the identifiers of the entries marked removed
RemovedKeys == {boot_entries[i].ident : i \in {j \in DOMAIN boot_entries : boot_entries[j].removed}}

\* C17: the pending removal set is the set of the identifiers of the
\* entries whose removed flag is set; an identifier removed and restored is
\* in the table, not removed, and not in the set
C17_RemovesMatchFlags ==
    Loaded =>
        /\ mods.removes = RemovedKeys
        /\ \A x \in BootKeys(original_entries) \ mods.removes :
              x \in BootKeys(boot_entries) /\ ~EntryOf(boot_entries, x).removed

\* the table two edits leave when the first boot option of the snapshot is
\* removed and restored: it is the last of the table and nothing is removed
C17_Witness ==
    /\ Loaded
    /\ Len(SnapshotSequence) = 3
    /\ mods.removes = {} /\ RemovedKeys = {}
    /\ mods.order
    /\ WorkingSequence = Tail(SnapshotSequence) \o <<Head(SnapshotSequence)>>
    /\ nops = 2

(***************************************************************************)
(* Properties of the active flag.                                          *)
(***************************************************************************)
\* the pending sets agree with the working flags
PendingMatchesFlags ==
    Loaded =>
        /\ mods.actives \cap mods.inactives = {}
        /\ \A x \in mods.actives :
              x \in BootKeys(boot_entries) /\ EntryOf(boot_entries, x).active # ""
        /\ \A x \in mods.inactives :
              x \in BootKeys(boot_entries) /\ EntryOf(boot_entries, x).active = ""

\* this step is an edit (not a load) that flips the active flag of x
Toggles(x) ==
    /\ Loaded /\ status' = "ui" /\ mods' # BootModifications
    /\ x \in BootKeys(boot_entries')
    /\ EntryOf(boot_entries', x).active # EntryOf(boot_entries, x).active

\* C18: the pending-activate and pending-deactivate sets are disjoint, the
\* entries of the first have their active flag set and those of the second
\* have it clear; a toggle puts the identifier in the set of the new flag
\* and takes it out of the other
C18_PendingActiveSets ==
    /\ []PendingMatchesFlags
    /\ [][\A x \in BootKeys(boot_entries) :
             Toggles(x) =>
                IF EntryOf(boot_entries', x).active # ""
                THEN /\ mods'.actives = mods.actives \cup {x}
                     /\ mods'.inactives = mods.inactives \ {x}
                ELSE /\ mods'.inactives = mods.inactives \cup {x}
                     /\ mods'.actives = mods.actives \ {x}]_vars

\* one boot option was switched on and another switched off
C18_Witness ==
    /\ Loaded
    /\ mods.actives # {} /\ mods.inactives # {}
    /\ \E x \in mods.actives : EntryOf(original_entries, x).active = ""
    /\ \E x \in mods.inactives : EntryOf(original_entries, x).active # ""

(***************************************************************************)
(* Properties of the system fields of a load.                              *)
(***************************************************************************)
\* the number of entries of identifier ident
CountOf(entries, ident) ==
    Cardinality({i \in DOMAIN entries : entries[i].ident = ident})

\* the lines of key key the load reads as system lines, as read
SysLinesOf(key) ==
    SelectSeq(ReadLines(raw, testfile), LAMBDA line : IsSysLine(line) /\ line.key = key)

\* C19 as stated: after every load the table has exactly one BootNext entry
\* and exactly one Timeout entry
C19_OneNextOneTimeout ==
    Loaded =>
        /\ CountOf(boot_entries, "BootNext:") = 1
        /\ CountOf(boot_entries, "Timeout:") = 1

\* C19 amended: after every load the table has exactly one BootNext entry,
\* its first, with the label '---' when the input has no BootNext line and
\* the value read from the last one otherwise; it has one Timeout entry per
\* Timeout line of the input, in their order, and none when there is none
C19_OneNextTimeoutAsRead ==
    Loaded =>
        /\ CountOf(boot_entries, "BootNext:") = 1
        /\ boot_entries[1].ident = "BootNext:"
        /\ boot_entries[1].label =
              IF SysLinesOf("BootNext:") = <<>> THEN "---"
              ELSE Last(SysLinesOf("BootNext:")).info[1]
        /\ LET timeouts == SelectSeq(boot_entries, LAMBDA ns : ns.ident = "Timeout:")
           IN /\ Len(timeouts) = Len(SysLinesOf("Timeout:"))
              /\ \A k \in DOMAIN timeouts :
                    timeouts[k].label = SysLinesOf("Timeout:")[k].info[1]

\* a text with two BootNext lines and two Timeout lines is loaded
C19_Witness ==
    /\ Loaded /\ ~testfile
    /\ Len(SysLinesOf("BootNext:")) = 2
    /\ CountOf(boot_entries, "Timeout:") = 2
    /\ boot_entries[1].label = "0002"

(***************************************************************************)
(* Properties of the active toggle.                                        *)
(***************************************************************************)
FlagOf(entries, x) == EntryOf(entries, x).active

\* every boot option has the active flag of the snapshot
FlagsAsSnapshot(entries) ==
    \A y \in BootKeys(original_entries) :
        FlagOf(entries, y) = FlagOf(original_entries, y)

\* this step is the star key on the boot option at line p
StarOn(p) == Picked(Prompted(p)).is_boot /\ Edit(p, do_star(Prompted(p)))

\* C20: the star key flips the active flag of the boot option it is pressed
\* on, between the two values a flag has, and no other flag; no other edit
\* changes a flag: two toggles of an option, whatever the state of each
\* and the edits between them, give it back its flag.  When the toggle
\* leaves every option with the flag of the snapshot (the second of two on
\* an option, no other option with a net change), the active-set category
\* is not dirty
C20_ToggleTwiceCancels ==
    [][/\ \A p \in Positions :
             StarOn(p) =>
                LET x == Picked(Prompted(p)).ident IN
                /\ FlagOf(boot_entries, x) \in {"", "*"}
                /\ FlagOf(boot_entries', x) \in {"", "*"} \ {FlagOf(boot_entries, x)}
                /\ \A y \in BootKeys(boot_entries) \ {x} :
                      FlagOf(boot_entries', y) = FlagOf(boot_entries, y)
                /\ FlagsAsSnapshot(boot_entries') =>
                      ~actives_changed(boot_entries', original_entries', mods')
       /\ \A x \in BootKeys(boot_entries) :
             Toggles(x) => \E p \in Positions : StarOn(p) /\ Picked(Prompted(p)).ident = x
      ]_vars

\* a removed boot option carries a pending toggle and the flag of the
\* snapshot: it was toggled, and toggled back after its removal
C20_Witness ==
    /\ Loaded /\ FlagsAsSnapshot(boot_entries)
    /\ \E x \in mods.actives \cup mods.inactives : EntryOf(boot_entries, x).removed
    /\ ~actives_changed(boot_entries, original_entries, mods)

(***************************************************************************)
(* Properties of the moves.                                                *)
(***************************************************************************)
\* the lines of the non-removed boot options
MovablePositions ==
    {p \in Positions : At(boot_entries, p).is_boot /\ ~At(boot_entries, p).removed}

\* the order category after the handlers left the session h
OrderCategoryOf(h) == order_changed(h.boot_entries, original_entries, h.mods)

\* C21 as stated: from every line of a non-removed boot option, up then
\* down and down then up give back the table
C21_MovesCancel ==
    Loaded =>
        \A p \in MovablePositions :
            /\ do_down(do_up(Prompted(p))).boot_entries = boot_entries
            /\ do_up(do_down(Prompted(p))).boot_entries = boot_entries

\* C21 amended: when the first of the two moves takes effect, the second
\* takes effect too and gives back the table with the cursor on the line
\* it started from; when the working order was the snapshot's, the order
\* category is false afterwards
C21_EffectiveMovesCancel ==
    Loaded =>
        \A p \in MovablePositions :
            LET s == Prompted(p)
                updown == do_down(do_up(s))
                downup == do_up(do_down(s))
            IN /\ do_up(s) # s =>
                     /\ updown # do_up(s)
                     /\ updown.boot_entries = boot_entries /\ updown.pick_pos = p
                     /\ ~OrderDiffers => ~OrderCategoryOf(updown)
               /\ do_down(s) # s =>
                     /\ downup # do_down(s)
                     /\ downup.boot_entries = boot_entries /\ downup.pick_pos = p
                     /\ ~OrderDiffers => ~OrderCategoryOf(downup)

\* two edits moved a boot option and moved it back: the order was touched,
\* nothing else, and the table is in the snapshot's order, from where a boot
\* option can again move up and another down
C21_Witness ==
    /\ Loaded /\ nops = 2 /\ mods.order /\ ~mods.dirty
    /\ boot_entries = original_entries
    /\ \E p \in MovablePositions : do_up(Prompted(p)) # Prompted(p)
    /\ \E p \in MovablePositions : do_down(Prompted(p)) # Prompted(p)

(***************************************************************************)
(* Properties of the next-boot field.                                      *)
(***************************************************************************)
\* the session after k presses of 'n' with the cursor on the BootNext line
RECURSIVE CycleTimes(_, _)
CycleTimes(s, k) ==
    IF k = 0 THEN s ELSE CycleTimes(do_next([s EXCEPT !.pick_pos = 0]), k - 1)

SnapshotNext == original_next(original_entries)

\* C22: from a freshly loaded table of N >= 1 boot options whose BootNext
\* value is '---' or the identifier of one of them, N+1 cycle-next steps
\* give the BootNext label the snapshot's value back and leave the pending
\* next-boot override unset
C22_FullCycleReturns ==
    (/\ Fresh
     /\ BootKeys(boot_entries) # {}
     /\ SnapshotNext \in {"---"} \cup BootKeys(boot_entries)) =>
        LET cycled == CycleTimes(Session, Cardinality(BootKeys(boot_entries)) + 1)
        IN /\ cycled.boot_entries[1].label = SnapshotNext
           /\ cycled.mods.next = None

(***************************************************************************)
(* Totality of the edits.                                                  *)
(***************************************************************************)
\* what each edit asks of the line p it is invoked on
CanMoveUp(p) ==
    /\ At(boot_entries, p).is_boot /\ ~At(boot_entries, p).removed
    /\ p > boot_idx /\ ~At(boot_entries, p - 1).removed
CanMoveDown(p) ==
    /\ At(boot_entries, p).is_boot /\ ~At(boot_entries, p).removed
    /\ p + 1 < Len(boot_entries) /\ ~At(boot_entries, p + 1).removed
OnBootOption(p) == At(boot_entries, p).is_boot
OnNextField(p) == At(boot_entries, p).ident = "BootNext:"
OnTimeoutField(p) == At(boot_entries, p).ident = "Timeout:"

\* the session h is one the program can go on with: as many entries, the
\* BootNext field still the first, and the cursor on one of them
WellFormed(h) ==
    /\ h.pick_pos \in Positions
    /\ Len(h.boot_entries) = Len(boot_entries)
    /\ h.boot_entries[1].ident = "BootNext:"

\* the edit that leaves h from the session s either applies and leaves a
\* session the program goes on with, or leaves s
Total(applies, h, s) == IF applies THEN WellFormed(h) ELSE h = s

\* C23: with the cursor on any line of any reachable table every edit ends
\* in a session the program goes on with, and an edit whose requirement on
\* the line does not hold leaves the table, the pending changes and the
\* cursor as they were
C23_EditsAreTotal ==
    Loaded =>
        \A p \in Positions :
            LET s == Prompted(p) IN
            /\ Total(CanMoveUp(p), do_up(s), s)
            /\ Total(CanMoveDown(p), do_down(s), s)
            /\ Total(OnBootOption(p), do_star(s), s)
            /\ Total(OnBootOption(p), do_remove(s), s)
            /\ Total(OnBootOption(p) \/ OnNextField(p), do_next(s), s)
            /\ \A answer \in TagAnswers \cup {""} :
                  Total(OnBootOption(p), do_tag(s, answer), s)
            /\ \A answer \in TimeoutAnswers \cup {""} :
                  Total(OnTimeoutField(p), do_modify(s, answer), s)

\* after some edits the table has a removed boot option, on which the
\* moves do not apply, next to the system lines, on which only the field
\* edits apply
C23_Witness ==
    /\ Loaded /\ nops > 0
    /\ \E p \in Positions :
          At(boot_entries, p).removed /\ ~CanMoveUp(p) /\ ~CanMoveDown(p)
    /\ \E p \in Positions : ~OnBootOption(p) /\ ~OnNextField(p) /\ ~OnTimeoutField(p)

(***************************************************************************)
(* Properties of the field edits.                                          *)
(***************************************************************************)
\* an input is invalid for the timeout when, surrounding blanks apart, it is
\* not a non-empty string of digits; for a label when it has a character
\* that is neither a word character nor whitespace
InvalidTimeout(chars) ==
    strip(chars) # <<>> /\ \E i \in DOMAIN strip(chars) : strip(chars)[i] \notin Digits
InvalidLabel(chars) == \E i \in DOMAIN chars : chars[i] \notin WordChars \cup Spaces
Blank(chars) == strip(chars) = <<>>

\* the inputs of typed that are not invalid
Valid(typed, Invalid(_)) == SelectSeq(typed, LAMBDA chars : ~Invalid(chars))

InvalidTexts ==
    {Str(strip(chars)) : chars \in {c \in TimeoutEnding \cup TimeoutRefused : InvalidTimeout(c)}}
    \cup {Str(strip(chars)) : chars \in {c \in TagEnding \cup TagRefused : InvalidLabel(c)}}

\* the timeout loop ends on the answer it would end on had the invalid
\* inputs not been typed, never on an invalid text, and on '' when the
\* first input that is not invalid is blank
TimeoutLoopSkipsInvalid ==
    \A typed \in Typed(TimeoutRefused, TimeoutEnding) :
        LET valid == Valid(typed, InvalidTimeout) IN
        /\ timeout_answer(typed) = timeout_answer(valid)
        /\ timeout_answer(typed) \in (TimeoutAnswers \cup {""}) \ InvalidTexts
        /\ Blank(valid[1]) => timeout_answer(typed) = ""

\* the same for the label loop
TagLoopSkipsInvalid ==
    \A typed \in Typed(TagRefused, TagEnding) :
        LET valid == Valid(typed, InvalidLabel) IN
        /\ tag_answer(typed) = tag_answer(valid)
        /\ tag_answer(typed) \in (TagAnswers \cup {""}) \ InvalidTexts
        /\ Blank(valid[1]) => tag_answer(typed) = ""

C25_SnapshotFrozen ==
    /\ [](Loaded => original_entries = digest_boots(raw, testfile).rv)
    /\ [][(status' = "ui" /\ original_entries' # original_entries) => Fresh' /\ nops' = 0]_vars

\* after edits that left the table different from the snapshot, a write
\* printed its commands and was declined
C25_Witness ==
    /\ Declined
    /\ boot_entries # original_entries
    /\ original_entries = digest_boots(raw, testfile).rv

(***************************************************************************)
(* Properties of a failing load.                                           *)
(***************************************************************************)
\* C26: a load fails only while the terminal is out of curses mode: at
\* startup before the window exists, and never with the window on the
\* screen
C26_LoadFailsOutsideUI == status = "crashed" => ~curses

\* the load of __init__ fails only before the window is created
LoadFailsBeforeWindow == [][(status = "new" /\ status' = "crashed") => ~curses']_vars

(***************************************************************************)
(* Properties of one move.                                                 *)
(***************************************************************************)
\* the session h is the session at line p after the entries of lines p and
\* q changed places and the cursor went to q: every other entry is where it
\* was, the two entries have all their fields, and of the pending changes
\* only the order flag is set
MovedTo(h, p, q) ==
    /\ Len(h.boot_entries) = Len(boot_entries)
    /\ At(h.boot_entries, q) = At(boot_entries, p)
    /\ At(h.boot_entries, p) = At(boot_entries, q)
    /\ \A i \in Positions \ {p, q} : At(h.boot_entries, i) = At(boot_entries, i)
    /\ h.pick_pos = q
    /\ h.mods = [mods EXCEPT !.order = TRUE]

\* C27: up takes effect exactly on a non-removed boot option below the
\* first boot line whose predecessor is not removed, down exactly on a
\* non-removed boot option that is not the last entry and whose successor is
\* not removed; the move swaps the two neighbours, takes the cursor along,
\* sets the order flag and changes nothing else
C27_MoveEffect ==
    Loaded =>
        \A p \in Positions :
            LET s == Prompted(p) IN
            /\ IF CanMoveUp(p) THEN MovedTo(do_up(s), p, p - 1) ELSE do_up(s) = s
            /\ IF CanMoveDown(p) THEN MovedTo(do_down(s), p, p + 1) ELSE do_down(s) = s
            /\ CanMoveUp(p) => do_up(s) # s
            /\ CanMoveDown(p) => do_down(s) # s

\* one edit was made and it moved a boot option; from here the last boot
\* option can only move up and the first only down
C27_Witness ==
    /\ Loaded /\ nops = 1 /\ mods.order /\ mods.removes = {}
    /\ WorkingSequence # SnapshotSequence
    /\ \E p \in MovablePositions : CanMoveUp(p) /\ ~CanMoveDown(p)
    /\ \E p \in MovablePositions : ~CanMoveUp(p) /\ CanMoveDown(p)

(***************************************************************************)
(* Properties of restore.                                                  *)
(***************************************************************************)
RemovedPositions ==
    {p \in Positions : At(boot_entries, p).is_boot /\ At(boot_entries, p).removed}

\* in the table entries, line q is right before the first boot option
\* still removed, or the last line when none is removed
BeforeFirstRemoved(entries, q) ==
    LET still == {i \in 0..(Len(entries) - 1) :
                     At(entries, i).is_boot /\ At(entries, i).removed}
    IN IF still = {} THEN q = Len(entries) - 1
       ELSE q + 1 \in still /\ \A i \in still : q < i

\* C28: restore on a removed boot option clears its removed flag and
\* nothing else of it, takes its identifier out of the pending removals,
\* puts the entry right before the first boot option still removed (last
\* when none is), keeps the other entries and their order, and leaves the
\* cursor in range and on the restored entry
C28_RestoreEffect ==
    Loaded =>
        \A p \in RemovedPositions :
            LET h == do_remove(Prompted(p))
                x == At(boot_entries, p).ident
            IN /\ h.pick_pos \in Positions
               /\ At(h.boot_entries, h.pick_pos) = [At(boot_entries, p) EXCEPT !.removed = FALSE]
               /\ h.mods.removes = mods.removes \ {x}
               /\ x \notin h.mods.removes
               /\ BeforeFirstRemoved(h.boot_entries, h.pick_pos)
               /\ Pop(h.boot_entries, h.pick_pos) = Pop(boot_entries, p)

\* three edits left one boot option removed and the two others, not
\* removed, in the reverse of the snapshot's order with nothing else
\* pending: as after two removals and the restore of the second
C28_Witness ==
    /\ Loaded /\ nops = 3 /\ Cardinality(mods.removes) = 1
    /\ Len(WorkingSequence) = 2
    /\ WorkingSequence = <<SnapshotSequence[3], SnapshotSequence[2]>>
    /\ At(boot_entries, pick_pos).ident = SnapshotSequence[2]
    /\ mods.actives = {} /\ mods.inactives = {} /\ mods.next = None /\ mods.timeout = None

(***************************************************************************)
(* Properties of one cycle-next step.                                      *)
(***************************************************************************)
\* the label the claim gives the field, from the label it has, the boot
\* options L in table order and the snapshot's value
CycledLabel(current, L, orig) ==
    IF current = orig \/ current = "---" THEN L[1]
    ELSE IF \E i \in 1..(Len(L) - 1) : L[i] = current
    THEN L[(CHOOSE i \in 1..(Len(L) - 1) : L[i] = current) + 1]
    ELSE IF current = L[Len(L)] THEN orig
    ELSE L[1]

\* boot-option lists without repetition and labels, recognized or not
CycleLists ==
    {L \in UNION {[1..n -> {"0001", "0002", "0003"}] : n \in 1..3} :
        \A i, j \in DOMAIN L : L[i] = L[j] => i = j}
CycleLabels == {"---", "0001", "0002", "0003", "0001\n", "00AB"}

\* the value computed is the value claimed, whatever the label
CycleFollowsList ==
    \A L \in CycleLists : \A current, orig \in CycleLabels :
        next_ident(current, L, orig) = CycledLabel(current, L, orig)

\* a table with no boot option
NoOptions ==
    [boot_entries |-> <<BootEntry("BootNext:", FALSE, "", "---")>>,
     pick_pos |-> 0, mods |-> BootModifications]

\* C29: 'n' on the BootNext line gives the field the label CycledLabel, sets
\* the pending next-boot value to it, or clears it when it is the snapshot's
\* value, and changes nothing else; with no boot option it changes nothing
C29_CycleStep ==
    Loaded =>
        LET s == Prompted(0)
            h == do_next(s)
            label == CycledLabel(boot_entries[1].label, BootPart(boot_entries), SnapshotNext)
        IN /\ CycleFollowsList
           /\ boot_entries[1].ident = "BootNext:"
           /\ BootPart(boot_entries) # <<>> =>
                 h = [s EXCEPT !.boot_entries[1].label = label,
                               !.mods.next = IF label = SnapshotNext THEN None ELSE label]
           /\ BootPart(boot_entries) = <<>> => h = s
           /\ do_next(NoOptions) = NoOptions

\* the field shows the last boot option and it is pending: the next step
\* goes back to the snapshot's value and clears the pending value
C29_Witness ==
    /\ Loaded /\ Len(BootPart(boot_entries)) >= 2
    /\ boot_entries[1].label = Last(BootPart(boot_entries))
    /\ mods.next = boot_entries[1].label
    /\ SnapshotNext = "---"
    /\ do_next(Prompted(0)).mods.next = None

(***************************************************************************)
(* Properties of the stored dirty flag.                                    *)
(***************************************************************************)
\* C30: whenever the session is running, and so at every prompt where the
\* next key (write, quit, reset, reboot) reads it and where the window asks
\* for the available actions, the stored dirty flag is what the
\* recomputation gives on the table, the pending changes and the snapshot
\* of that moment: 'w' is offered exactly when they differ, 'b' exactly when
\* they do not
C30_DirtyIsCurrent ==
    Loaded =>
        /\ mods.dirty = Dirty(boot_entries, original_entries, mods)
        /\ \A p \in Positions :
              /\ "w" \in get_actions(Prompted(p)) <=> Dirty(boot_entries, original_entries, mods)
              /\ "b" \in get_actions(Prompted(p)) <=> ~Dirty(boot_entries, original_entries, mods)

\* edits that touched the order and cancelled each other: the flag went up
\* with the first and is down again
C30_Witness ==
    /\ Loaded /\ AtPrompt /\ nops >= 2
    /\ mods.order /\ ~mods.dirty
    /\ \A p \in Positions : "b" \in get_actions(Prompted(p))

(***************************************************************************)
(* Properties of the steps that drop or bypass pending changes.            *)
(***************************************************************************)
\* C31: the machine is never rebooted from a dirty session; a command list
\* is printed, and commands are run, only from a dirty session; and a quit
\* or a reset of a dirty session that is not answered 'y' leaves the table,
\* the snapshot and the pending changes, and the session goes on
C31_PendingNeverDropped ==
    [][/\ status' = "rebooted" => ~mods.dirty
       /\ (shown' # <<>> \/ ran' # <<>>) /\ shown = <<>> => mods.dirty
       /\ mods.dirty /\ (Quit(FALSE) \/ Reset(FALSE)) =>
             UNCHANGED <<status, boot_entries, original_entries, mods>>]_vars

\* a dirty session whose write was declined: the list was printed, nothing
\* ran, and the reboot key is not offered on any line
C31_Witness ==
    /\ Loaded /\ mods.dirty
    /\ shown # <<>> /\ ran = <<>>
    /\ \A p \in Positions : "b" \notin get_actions(Prompted(p))

(***************************************************************************)
(* What a write leaves in the firmware.  The firmware table is taken as    *)
(* efibootmgr documents it: the boot options with their flag and label,    *)
(* BootOrder, BootNext and Timeout; each command changes the one thing it  *)
(* names and, here, every command succeeds.                                *)
(***************************************************************************)
\* the firmware table the snapshot was loaded from
FirmwareOf(orig) ==
    [boots |-> SelectSeq(orig, LAMBDA ns : ns.is_boot),
     order |-> original_order(orig),
     sys |-> SelectSeq(orig, LAMBDA ns : ~ns.is_boot)]

SetSys(sys, key, label) ==
    [k \in DOMAIN sys |-> IF sys[k].ident = key THEN [sys[k] EXCEPT !.label = label]
                           ELSE sys[k]]

\* one efibootmgr command on the firmware table
Apply(fw, cmd) ==
    IF cmd.flag = "--delete-bootnum" THEN
        [fw EXCEPT !.boots = SelectSeq(@, LAMBDA ns : ns.ident # cmd.bootnum),
                   !.order = SelectSeq(@, LAMBDA x : x # cmd.bootnum)]
    ELSE IF cmd.flag \in {"--active", "--inactive", "--label"} THEN
        [fw EXCEPT !.boots =
            [k \in DOMAIN @ |->
                IF @[k].ident # cmd.bootnum THEN @[k]
                ELSE IF cmd.flag = "--active" THEN [@[k] EXCEPT !.active = "*"]
                ELSE IF cmd.flag = "--inactive" THEN [@[k] EXCEPT !.active = ""]
                ELSE [@[k] EXCEPT !.label = cmd.arg[1]]]]
    ELSE IF cmd.flag = "--bootorder" THEN [fw EXCEPT !.order = cmd.arg]
    ELSE IF cmd.flag = "--bootnext" THEN
        [fw EXCEPT !.sys = SetSys(@, "BootNext:", cmd.arg[1])]
    ELSE [fw EXCEPT !.sys = SetSys(@, "Timeout:", cmd.arg[1] \o " seconds")]

RECURSIVE ApplyAll(_, _)
ApplyAll(fw, cmds) ==
    IF cmds = <<>> THEN fw ELSE ApplyAll(Apply(fw, Head(cmds)), Tail(cmds))

\* what efibootmgr prints for the firmware table fw
Printed(fw) ==
    [k \in DOMAIN fw.sys |-> SysLine(fw.sys[k].ident, fw.sys[k].label)]
    \o <<OrderLine(fw.order)>>
    \o [k \in DOMAIN fw.boots |->
            BootLine(fw.boots[k].ident, fw.boots[k].active, fw.boots[k].label)]

\* the table a load shows after the commands cmds
Reloaded(cmds) ==
    digest_boots(Printed(ApplyAll(FirmwareOf(original_entries), cmds)), FALSE).rv

\* C32: in a dirty session on efibootmgr, whichever list write() builds,
\* running it and loading again gives the working table without its
\* removed entries
C32_WrittenIsDisplayed ==
    Loaded /\ ~testfile /\ mods.dirty =>
        \A cmds \in CmdLists(boot_entries, mods) :
            Reloaded(cmds) = SelectSeq(boot_entries, LAMBDA ns : ~ns.removed)

(***************************************************************************)
(* Properties of the pending changes of removed boot options.              *)
(***************************************************************************)
\* the identifiers the list cmds names under the option flag
Named(cmds, flag) == Range(Bootnums(cmds, flag))

\* C33: no identifier pending removal is also pending activation,
\* deactivation or a new label, and no list write() builds deletes a boot
\* option and also activates, deactivates or labels it
C33_RemovedNotChanged ==
    Loaded =>
        /\ mods.removes \cap (mods.actives \cup mods.inactives \cup DOMAIN mods.tags) = {}
        /\ \A cmds \in CmdLists(boot_entries, mods) :
              Named(cmds, "--delete-bootnum")
                \cap (Named(cmds, "--active") \cup Named(cmds, "--inactive")
                      \cup Named(cmds, "--label")) = {}

\* C34: the pending next-boot override never names a boot option marked
\* removed, and no list write() builds sets as next boot an option that it
\* deletes
C34_NextNotRemoved ==
    Loaded =>
        /\ mods.next \notin RemovedKeys
        /\ \A cmds \in CmdLists(boot_entries, mods) :
              \A k \in DOMAIN cmds :
                  cmds[k].flag = "--bootnext" =>
                      cmds[k].arg[1] \notin Named(cmds, "--delete-bootnum")

(***************************************************************************)
(* Reach of the next-boot cycle.                                           *)
(***************************************************************************)
\* the BootNext labels seen within n presses of 'n' on the BootNext line
CycleReach(n) == {CycleTimes(Session, k).boot_entries[1].label : k \in 0..n}

\* the label comes back to the snapshot's value within n presses
CycleReturns(n) ==
    \E k \in 1..n : CycleTimes(Session, k).boot_entries[1].label = SnapshotNext

\* C35: from a freshly loaded table with a boot option, the presses of 'n'
\* on the BootNext line show every boot option's identifier in the field
\* and bring the snapshot's value back (the cycle has at most one value
\* more than there are boot options, so one turn more than the table is
\* long shows all it can reach)
C35_CycleReachesAll ==
    Fresh /\ BootKeys(boot_entries) # {} =>
        /\ BootKeys(boot_entries) \subseteq CycleReach(Len(boot_entries) + 1)
        /\ CycleReturns(Len(boot_entries) + 1)

====
